---- MODULE Spec2Model ----
(***************************************************************************)
(* A model of the pushprom python client: credentials.py, errors.py and    *)
(* metric_senders.py.  The program is a library, so the state machine is   *)
(* a client that holds one reference `sender`, rebinds it by calling the   *)
(* constructors, and calls the methods of the object it holds.  Every call *)
(* is one action; what the call raised, what it sent over HTTP and what it *)
(* was given are kept in `lastCall`.  requests.post is synchronous: when a *)
(* call has returned or raised, nothing of it is left in flight.           *)
(***************************************************************************)
EXTENDS Integers, Sequences, FiniteSets, TLC

VARIABLES
    sender,     \* the object the client holds (NoObj before any constructor succeeded)
    lastCall,   \* the most recent call: operation, arguments, exception and
                \* the requests it gave to requests.post
    ghost       \* history of the held object: calls made on it since its construction

vars == <<sender, lastCall, ghost>>

----------------------------------------------------------------------------
(* Bounds of the exploration. *)

MaxCount == 3       \* Counter.increase() is explored up to this accumulator value
MaxGaugeOps == 3    \* increase_by/decrease_by calls explored per Gauge

----------------------------------------------------------------------------
(* Python values that reach the type checks of the code.  A value is its   *)
(* type tag, its text (for a str) and its items (for a dict: <<key,value>> *)
(* pairs in insertion order; for a list: one-element tuples).              *)

PyStr(s) == [t |-> "str", s |-> s, items |-> <<>>]
PyNone == [t |-> "NoneType", s |-> "", items |-> <<>>]
PyDict(items) == [t |-> "dict", s |-> "", items |-> items]
PyList(items) == [t |-> "list", s |-> "", items |-> items]

isinstance(v, cls) == v.t = cls

\* The types for which len() is defined; len() of any other value raises TypeError.
HasLen(v) == v.t \in {"str", "dict", "list"}

len(v) == IF v.t = "str" THEN Len(v.s) ELSE Len(v.items)

NoObj == [cls |-> "NoObj"]

\* The exceptions of errors.py and the builtin ones the code raises.
NoLabelsError == "NoLabelsError"
NotSortedError == "NotSortedError"
ValueError == "ValueError"
TypeError == "TypeError"
NotImplementedError == "NotImplementedError"
ConnectionError == "ConnectionError"
NoExc == "None"

----------------------------------------------------------------------------
(* credentials.py *)

Credentials(host, port) == [host |-> host, port |-> port]

address(c) == "http://" \o c.host \o ":" \o c.port

----------------------------------------------------------------------------
(* Inputs the client draws its arguments from. *)

CredentialSet == {Credentials("localhost", "9091")}
NameSet == {"", "m"}
HelpSet == {PyStr("h"), PyNone}
MetricTypes == {"counter", "gauge", "histogram", "summary"}
TypeSet == MetricTypes \cup {"bogus"}
ValueSet == {0, 5}
DeltaSet == {-1, 2}
LabelSet == {PyDict(<<>>), PyDict(<< <<"k", "v">> >>),
             PyList(<<>>), PyList(<< <<"k">> >>), PyStr("k"), PyNone}
BoundsSet == {<<1, 2>>, <<2, 1>>}
NetSet == {"ok", ConnectionError}

----------------------------------------------------------------------------
(* metric_senders.py: the constructors.  A constructor yields the          *)
(* exception it raised (NoExc for none) and the object it built (NoObj     *)
(* when it raised).                                                        *)

Raised(e) == [exc |-> e, obj |-> NoObj]

BaseInitNoNameCheck(credentials, metric_name, help_string, metric_type) ==
    IF ~isinstance(help_string, "str") THEN Raised(TypeError)
    ELSE [exc |-> NoExc,
          obj |-> [cls |-> "BasePushpromMetricSender",
                   url |-> address(credentials),
                   metric_name |-> metric_name,
                   metric_type |-> IF metric_type \in MetricTypes
                                   THEN metric_type ELSE "gauge",
                   help |-> help_string.s]]

BaseInitKeepType(credentials, metric_name, help_string, metric_type) ==
    IF ~(Len(metric_name) > 0) THEN Raised(ValueError)
    ELSE IF ~isinstance(help_string, "str") THEN Raised(TypeError)
    ELSE [exc |-> NoExc,
          obj |-> [cls |-> "BasePushpromMetricSender",
                   url |-> address(credentials),
                   metric_name |-> metric_name,
                   metric_type |-> metric_type,
                   help |-> help_string.s]]

BaseInit(credentials, metric_name, help_string, metric_type) ==
    IF ~(Len(metric_name) > 0) THEN Raised(ValueError)
    ELSE IF ~isinstance(help_string, "str") THEN Raised(TypeError)
    ELSE [exc |-> NoExc,
          obj |-> [cls |-> "BasePushpromMetricSender",
                   url |-> address(credentials),
                   metric_name |-> metric_name,
                   metric_type |-> IF metric_type = "counter"
                                      \/ metric_type = "gauge"
                                      \/ metric_type = "histogram"
                                      \/ metric_type = "summary"
                                   THEN metric_type ELSE "gauge",
                   help |-> help_string.s]]

\* An object of a subclass: the fields the base constructor set, the class
\* and the private accumulator.
Sub(base, cls, counter) ==
    [cls |-> cls, url |-> base.url, metric_name |-> base.metric_name,
     metric_type |-> base.metric_type, help |-> base.help, counter |-> counter]

GaugeInit(credentials, metric_name, help_string) ==
    LET r == BaseInit(credentials, metric_name, help_string, "gauge")
    IN  IF r.exc # NoExc THEN r
        ELSE [exc |-> NoExc, obj |-> Sub(r.obj, "Gauge", 0)]

CounterInit(credentials, metric_name, help_string) ==
    LET r == BaseInit(credentials, metric_name, help_string, "counter")
    IN  IF r.exc # NoExc THEN r
        ELSE [exc |-> NoExc, obj |-> Sub(r.obj, "Counter", 0)]

IsSorted(s) == \A i \in 1..(Len(s) - 1) : s[i] <= s[i + 1]

HistogramInitNoRaise(credentials, metric_name, help_string, buckets_bounds) ==
    LET r == BaseInit(credentials, metric_name, help_string, "histogram")
    IN  IF r.exc # NoExc THEN r
        ELSE IF ~IsSorted(buckets_bounds) THEN Raised(NotSortedError)
        ELSE [exc |-> NoExc, obj |-> Sub(r.obj, "Histogram", 0)]

HistogramInit(credentials, metric_name, help_string, buckets_bounds) ==
    Raised(NotImplementedError)

SummaryInit(credentials, metric_name, help_string) ==
    Raised(NotImplementedError)

----------------------------------------------------------------------------
(* metric_senders.py: the methods.  A method yields the exception it       *)
(* raised, what it returned, the requests it gave to requests.post and the *)
(* object as the call left it.  `net` is what the network does with a      *)
(* request: requests.post returns a response or raises, and send neither   *)
(* catches nor retries.                                                    *)

Raise(e, self) == [exc |-> e, ret |-> "None", requests |-> <<>>, self |-> self]

Return(ret, self) == [exc |-> NoExc, ret |-> ret, requests |-> <<>>, self |-> self]

Post(url, json, net, self) ==
    LET req == [url |-> url, json |-> json]
    IN  IF net = ConnectionError
        THEN [exc |-> ConnectionError, ret |-> "None", requests |-> <<req>>, self |-> self]
        ELSE [exc |-> NoExc, ret |-> "Response", requests |-> <<req>>, self |-> self]

sendNoEmptyCheck(self, value, labels, net) ==
    IF ~isinstance(labels, "dict") THEN Raise(NoLabelsError, self)
    ELSE LET json == [type |-> self.metric_type,
                      name |-> self.metric_name,
                      help |-> self.help,
                      method |-> "add",
                      value |-> value,
                      labels |-> labels]
         IN  Post(self.url, json, net, self)

send(self, value, labels, net) ==
    IF isinstance(labels, "dict") THEN Raise(NoLabelsError, self)
    ELSE IF ~HasLen(labels) THEN Raise(TypeError, self)
    ELSE IF len(labels) < 1 THEN Raise(NoLabelsError, self)
    ELSE LET json == [type |-> self.metric_type,
                      name |-> self.metric_name,
                      help |-> self.help,
                      method |-> "add",
                      value |-> value,
                      labels |-> labels]
         IN  Post(self.url, json, net, self)

increase_by(self, value) ==
    Return("None", [self EXCEPT !.counter = @ + value])

decrease_byAdds(self, value) ==
    Return("None", [self EXCEPT !.counter = @ + value])

decrease_by(self, value) ==
    Return("None", [self EXCEPT !.counter = @ - value])

send_gaugeZero(self, labels, net) == send(self, 0, labels, net)

send_gauge(self, labels, net) == send(self, self.counter, labels, net)

increaseDropped(self) ==
    Return("None", self)

increase(self) ==
    Return("None", [self EXCEPT !.counter = @ + 1])

reset(self) ==
    Return("None", [self EXCEPT !.counter = 0])

send_counterAndReset(self, labels, net) ==
    [send(self, self.counter, labels, net) EXCEPT !.self = [self EXCEPT !.counter = 0]]

send_counter(self, labels, net) == send(self, self.counter, labels, net)

----------------------------------------------------------------------------
(* The client: one action per call. *)

\* incs: increase() calls since the last reset() (or construction); wasReset:
\* whether reset() was called; sumInc, sumDec: sums of the increase_by and
\* decrease_by arguments; nops: number of increase_by and decrease_by calls.
NoGhost == [incs |-> 0, wasReset |-> FALSE, sumInc |-> 0, sumDec |-> 0, nops |-> 0]

Init ==
    /\ sender = NoObj
    /\ lastCall = [op |-> "none", exc |-> NoExc]
    /\ ghost = NoGhost

\* A constructor call rebinds the reference only when nothing was raised.
Bind(r) ==
    /\ sender' = IF r.exc = NoExc THEN r.obj ELSE sender
    /\ ghost' = IF r.exc = NoExc THEN NoGhost ELSE ghost

NewBase(c, n, h, t) ==
    LET r == BaseInit(c, n, h, t)
    IN  /\ lastCall' = [op |-> "BasePushpromMetricSender", metric_name |-> n,
                        help_string |-> h, metric_type |-> t,
                        exc |-> r.exc, obj |-> r.obj]
        /\ Bind(r)

NewGauge(c, n, h) ==
    LET r == GaugeInit(c, n, h)
    IN  /\ lastCall' = [op |-> "Gauge", metric_name |-> n, help_string |-> h,
                        exc |-> r.exc, obj |-> r.obj]
        /\ Bind(r)

NewCounter(c, n, h) ==
    LET r == CounterInit(c, n, h)
    IN  /\ lastCall' = [op |-> "Counter", metric_name |-> n, help_string |-> h,
                        exc |-> r.exc, obj |-> r.obj]
        /\ Bind(r)

NewHistogram(c, n, h, b) ==
    LET r == HistogramInit(c, n, h, b)
    IN  /\ lastCall' = [op |-> "Histogram", metric_name |-> n, help_string |-> h,
                        buckets_bounds |-> b, exc |-> r.exc, obj |-> r.obj]
        /\ Bind(r)

NewSummary(c, n, h) ==
    LET r == SummaryInit(c, n, h)
    IN  /\ lastCall' = [op |-> "Summary", metric_name |-> n, help_string |-> h,
                        exc |-> r.exc, obj |-> r.obj]
        /\ Bind(r)

\* A method call on the held object.
Call(r, call, g) ==
    /\ lastCall' = call
    /\ sender' = r.self
    /\ ghost' = g

Send(v, l, net) ==
    /\ sender # NoObj
    /\ LET r == send(sender, v, l, net)
       IN  Call(r, [op |-> "send", before |-> sender, value |-> v, labels |-> l,
                    exc |-> r.exc, ret |-> r.ret, requests |-> r.requests], ghost)

SendGauge(l, net) ==
    /\ sender.cls = "Gauge"
    /\ LET r == send_gauge(sender, l, net)
       IN  Call(r, [op |-> "send_gauge", before |-> sender, labels |-> l,
                    exc |-> r.exc, ret |-> r.ret, requests |-> r.requests], ghost)

SendCounter(l, net) ==
    /\ sender.cls = "Counter"
    /\ LET r == send_counter(sender, l, net)
       IN  Call(r, [op |-> "send_counter", before |-> sender, labels |-> l,
                    exc |-> r.exc, ret |-> r.ret, requests |-> r.requests], ghost)

IncreaseBy(v) ==
    /\ sender.cls = "Gauge"
    /\ ghost.nops < MaxGaugeOps
    /\ LET r == increase_by(sender, v)
       IN  Call(r, [op |-> "increase_by", before |-> sender, value |-> v,
                    exc |-> r.exc, ret |-> r.ret, requests |-> r.requests],
                [ghost EXCEPT !.sumInc = @ + v, !.nops = @ + 1])

DecreaseBy(v) ==
    /\ sender.cls = "Gauge"
    /\ ghost.nops < MaxGaugeOps
    /\ LET r == decrease_by(sender, v)
       IN  Call(r, [op |-> "decrease_by", before |-> sender, value |-> v,
                    exc |-> r.exc, ret |-> r.ret, requests |-> r.requests],
                [ghost EXCEPT !.sumDec = @ + v, !.nops = @ + 1])

Increase ==
    /\ sender.cls = "Counter"
    /\ sender.counter < MaxCount
    /\ LET r == increase(sender)
       IN  Call(r, [op |-> "increase", before |-> sender,
                    exc |-> r.exc, ret |-> r.ret, requests |-> r.requests],
                [ghost EXCEPT !.incs = @ + 1])

Reset ==
    /\ sender.cls = "Counter"
    /\ LET r == reset(sender)
       IN  Call(r, [op |-> "reset", before |-> sender,
                    exc |-> r.exc, ret |-> r.ret, requests |-> r.requests],
                [ghost EXCEPT !.incs = 0, !.wasReset = TRUE])

Next ==
    \/ \E c \in CredentialSet, n \in NameSet, h \in HelpSet, t \in TypeSet :
          NewBase(c, n, h, t)
    \/ \E c \in CredentialSet, n \in NameSet, h \in HelpSet : NewGauge(c, n, h)
    \/ \E c \in CredentialSet, n \in NameSet, h \in HelpSet : NewCounter(c, n, h)
    \/ \E c \in CredentialSet, n \in NameSet, h \in HelpSet, b \in BoundsSet :
          NewHistogram(c, n, h, b)
    \/ \E c \in CredentialSet, n \in NameSet, h \in HelpSet : NewSummary(c, n, h)
    \/ \E v \in ValueSet, l \in LabelSet, net \in NetSet : Send(v, l, net)
    \/ \E l \in LabelSet, net \in NetSet : SendGauge(l, net)
    \/ \E l \in LabelSet, net \in NetSet : SendCounter(l, net)
    \/ \E v \in DeltaSet : IncreaseBy(v)
    \/ \E v \in DeltaSet : DecreaseBy(v)
    \/ Increase
    \/ Reset

Spec == Init /\ [][Next]_vars

----------------------------------------------------------------------------
(* Properties.  `lastCall` holds the call just made, so a property of a    *)
(* call is a property of the state the call leaves.                        *)

SendOps == {"send", "send_gauge", "send_counter"}
MethodOps == SendOps \cup {"increase_by", "decrease_by", "increase", "reset"}
SenderCtors == {"BasePushpromMetricSender", "Gauge", "Counter"}
StubCtors == {"Histogram", "Summary"}

EmptyDict == PyDict(<<>>)

\* The request send is documented to issue for `value` and `labels` on `obj`.
Envelope(obj, value, labels) ==
    [url |-> obj.url,
     json |-> [type |-> obj.metric_type, name |-> obj.metric_name,
               help |-> obj.help, method |-> "add",
               value |-> value, labels |-> labels]]

\* C1: send(value, labels) with a non-empty dict of labels raises nothing of
\* its own (only a transport error can come out of it) and issues exactly one
\* POST to the sender's url whose body carries the sender's type, name and
\* help, method "add", the given value and the given labels.
C1_SendWellFormed ==
    (lastCall.op = "send" /\ isinstance(lastCall.labels, "dict")
        /\ len(lastCall.labels) >= 1)
    => /\ lastCall.exc \in {NoExc, ConnectionError}
       /\ lastCall.requests
             = <<Envelope(lastCall.before, lastCall.value, lastCall.labels)>>

\* C2: send, send_gauge and send_counter called with an empty dict of labels
\* raise NoLabelsError and issue no POST, whatever the value and the sender.
C2_EmptyLabelsRejected ==
    (lastCall.op \in SendOps /\ lastCall.labels = EmptyDict)
    => /\ lastCall.exc = NoLabelsError
       /\ lastCall.requests = <<>>

C2_Witness ==
    /\ lastCall.op = "send_counter"
    /\ lastCall.labels = EmptyDict
    /\ lastCall.before.counter = 2
    /\ lastCall.exc = NoLabelsError

\* C3: send with labels that are not a dict raises NoLabelsError and issues no
\* POST; a POST is issued only for labels that are a dict.
C3_NonMappingRejected ==
    lastCall.op \in SendOps
    => /\ ~isinstance(lastCall.labels, "dict")
            => (lastCall.exc = NoLabelsError /\ lastCall.requests = <<>>)
       /\ lastCall.requests # <<>> => isinstance(lastCall.labels, "dict")

\* C4: constructing a Histogram or a Summary raises NotImplementedError for
\* every combination of arguments and builds nothing, so the client never
\* holds a Histogram or a Summary.
C4_StubsNeverConstruct ==
    /\ lastCall.op \in StubCtors
          => (lastCall.exc = NotImplementedError /\ lastCall.obj.cls = "NoObj")
    /\ sender.cls \notin StubCtors

C4_Witness ==
    /\ lastCall.op = "Histogram"
    /\ lastCall.metric_name = ""
    /\ ~isinstance(lastCall.help_string, "str")
    /\ ~IsSorted(lastCall.buckets_bounds)
    /\ lastCall.exc = NotImplementedError

\* C5: constructing a base sender, a Counter or a Gauge with the empty metric
\* name raises ValueError whatever the help text and the metric type are, so
\* every sender the client holds has a non-empty metric name.
C5_EmptyNameRejected ==
    /\ (lastCall.op \in SenderCtors /\ lastCall.metric_name = "")
          => (lastCall.exc = ValueError /\ lastCall.obj.cls = "NoObj")
    /\ sender.cls # "NoObj" => Len(sender.metric_name) > 0

C5_Witness ==
    /\ lastCall.op = "Gauge"
    /\ lastCall.metric_name = ""
    /\ ~isinstance(lastCall.help_string, "str")
    /\ lastCall.exc = ValueError

\* C6: a base sender constructed with a non-empty name, a str help and a type
\* tag outside the four metric types is built with type gauge, a tag among
\* the four is kept; every sender's type is one of the four, a Counter's is
\* counter, a Gauge's is gauge, and no method call changes the type.
C6_MetricTypeCoerced ==
    /\ (lastCall.op = "BasePushpromMetricSender" /\ lastCall.metric_name # ""
           /\ isinstance(lastCall.help_string, "str"))
          => /\ lastCall.exc = NoExc
             /\ sender = lastCall.obj
             /\ sender.metric_type = IF lastCall.metric_type \in MetricTypes
                                     THEN lastCall.metric_type ELSE "gauge"
    /\ sender.cls # "NoObj" => sender.metric_type \in MetricTypes
    /\ sender.cls = "Counter" => sender.metric_type = "counter"
    /\ sender.cls = "Gauge" => sender.metric_type = "gauge"
    /\ lastCall.op \in MethodOps
          => sender.metric_type = lastCall.before.metric_type

C6_Witness ==
    /\ lastCall.op = "BasePushpromMetricSender"
    /\ lastCall.metric_type = "bogus"
    /\ lastCall.exc = NoExc
    /\ sender.metric_type = "gauge"

\* C7: a Counter built with a non-empty name and a str help starts at 0, its
\* accumulator always equals the number of increase() calls since the last
\* reset() (or since construction), and reset() leaves it at 0.
C7_CounterCounts ==
    /\ (lastCall.op = "Counter" /\ lastCall.metric_name # ""
           /\ isinstance(lastCall.help_string, "str"))
          => (lastCall.exc = NoExc /\ sender.cls = "Counter" /\ sender.counter = 0)
    /\ sender.cls = "Counter" => sender.counter = ghost.incs
    /\ lastCall.op = "reset" => sender.counter = 0

C7_Witness ==
    /\ sender.cls = "Counter"
    /\ ghost.wasReset
    /\ lastCall.op = "increase"
    /\ lastCall.before.counter = 2
    /\ sender.counter = 3

\* C8: a Gauge starts at 0 and its accumulator always equals the sum of the
\* increase_by arguments minus the sum of the decrease_by arguments, of either
\* sign; increase_by(v) directly followed by decrease_by(v) restores the value
\* held before the two calls.
C8_GaugeStartsAtZero ==
    (lastCall.op = "Gauge" /\ lastCall.exc = NoExc)
    => (sender.cls = "Gauge" /\ sender.counter = 0)

C8_GaugeIsSum ==
    sender.cls = "Gauge" => sender.counter = ghost.sumInc - ghost.sumDec

C8_Restores ==
    (lastCall.op = "increase_by" /\ lastCall'.op = "decrease_by"
        /\ lastCall'.value = lastCall.value)
    => sender'.counter = lastCall.before.counter

\* C8 as one formula: the start value and the sum in every state, the
\* restoring pair of calls on every step.
C8_GaugeAccumulates ==
    /\ [](C8_GaugeStartsAtZero /\ C8_GaugeIsSum)
    /\ [][C8_Restores]_vars

\* The accumulator has gone negative after calls of both kinds and both signs.
C8_Witness ==
    /\ sender.cls = "Gauge"
    /\ sender.counter < 0
    /\ ghost.nops = 3
    /\ ghost.sumInc < 0
    /\ ghost.sumDec > 0

\* C9: no send, send_gauge or send_counter call, raising or not, changes the
\* object (accumulator, url, name, help, type); a Counter's accumulator is
\* changed by increase() and reset() only, and only reset() lowers it.
C9_SendChangesNothing ==
    /\ lastCall.op \in SendOps => sender = lastCall.before
    /\ (lastCall.op \in MethodOps /\ lastCall.before.cls = "Counter")
          => /\ lastCall.op \notin {"increase", "reset"}
                   => sender.counter = lastCall.before.counter
             /\ lastCall.op # "reset" => sender.counter >= lastCall.before.counter

C9_Witness ==
    /\ lastCall.op = "send_counter"
    /\ Len(lastCall.requests) = 1
    /\ ghost.wasReset
    /\ sender.counter = 2

\* C10: send_counter and send_gauge called with labels L have the outcome of
\* send(accumulator, L) on the same object: the same exception, the same
\* return, the same requests, and a request's value is the accumulator at the
\* moment of the call.
C10_SendCurrentDelegates ==
    lastCall.op \in {"send_counter", "send_gauge"}
    => /\ \E net \in NetSet :
             LET r == send(lastCall.before, lastCall.before.counter,
                           lastCall.labels, net)
             IN  /\ r.exc = lastCall.exc
                 /\ r.ret = lastCall.ret
                 /\ r.requests = lastCall.requests
                 /\ r.self = sender
       /\ \A i \in DOMAIN lastCall.requests :
             lastCall.requests[i].json.value = lastCall.before.counter

C10_Witness ==
    /\ lastCall.op = "send_gauge"
    /\ lastCall.before.counter = -3
    /\ Len(lastCall.requests) = 1
    /\ lastCall.exc = NoExc

====
